---------------------------- MODULE Spec2Model ----------------------------
(***************************************************************************)
(* Resilience layer of photo-api: the circuit breaker                      *)
(* (app/utils/circuit_breaker.py), the retry wrapper (app/utils/retry.py)  *)
(* the IAM token cache of the object storage service                       *)
(* (app/services/nhn_object_storage.py) and the log sender                 *)
(* (app/services/nhn_logger.py).                                           *)
(*                                                                         *)
(* Each component has its own specification over its own variables:       *)
(*   SpecBreaker, SpecRetry, SpecAuth, SpecLogger;                         *)
(* SpecProbes is the breaker with the state in which each call was         *)
(* admitted; SpecLocks takes the breaker and the token cache together,     *)
(* with fairness; SpecRecovery is the breaker before and after its         *)
(* dependency recovers, with fairness.                                     *)
(* Tasks are asyncio tasks of one event loop: a step of the model is the   *)
(* code a task runs between two suspension points.                         *)
(***************************************************************************)
EXTENDS Integers, Sequences, FiniteSets, TLC

(***************************************************************************)
(* Bounds of the model.                                                    *)
(***************************************************************************)
\* concurrent asyncio tasks using one breaker
NumTasks == 2
\* calls of CircuitBreaker.call started in one behaviour
MaxCalls == 6
\* the wall clock (time.time()) runs from 1 to MaxTime
MaxTime == 4
\* failure_threshold and success_threshold range over 1..MaxThreshold
MaxThreshold == 3
\* max_attempts of the retry wrapper ranges over 0..MaxAttempts
MaxAttempts == 7
\* calls of _get_auth_token started in one behaviour
MaxAuthCalls == 4
\* advances of the clock datetime.utcnow() in one behaviour
MaxTicks == 2
\* the batch given to _send_logs holds 0..MaxBatch logs
MaxBatch == 4
\* calls of CircuitBreaker.call started before the dependency recovers
RecoveryCalls == 3

Tasks == 1..NumTasks

\* CircuitState (circuit_breaker.py:53-57)
CLOSED == "CLOSED"
OPEN == "OPEN"
HALF_OPEN == "HALF_OPEN"
CircuitState == {CLOSED, OPEN, HALF_OPEN}

\* last_failure_time: Optional[float] = None
NoTime == 0
\* the values of the timeout argument that are tried
Timeouts == {1, 2}

VARIABLES
    \* ---- CircuitBreaker fields (circuit_breaker.py:87-96)
    failure_threshold, success_threshold, timeout,
    state, failure_count, success_count, last_failure_time,
    cb_lock,            \* self._lock: 0 when free, else the task holding it
    \* ---- gauge photo_api_circuit_breaker_last_state_change_timestamp_seconds
    last_state_change,
    \* ---- the environment of the breaker
    now,                \* time.time()
    cb_pc,              \* where each task is inside CircuitBreaker.call
    cb_event,           \* how the call that ended in the last step ended
    cb_exc,             \* the exception of the operation that is being recorded
    cb_raised,          \* the exception re-raised by the call that ended in the
                        \* last step
    calls,              \* calls started so far
    \* ---- history of the current run of failures (no success in between)
    run,                \* failures recorded since the last recorded success
    run_closed,         \* the run began while the breaker was CLOSED
    run_opens,          \* CLOSED->OPEN transitions counted during the run
    ho_succ             \* successes recorded since HALF_OPEN was entered

cbVars == <<failure_threshold, success_threshold, timeout, state, failure_count,
            success_count, last_failure_time, cb_lock, last_state_change, now,
            cb_pc, cb_event, cb_exc, cb_raised, calls, run, run_closed,
            run_opens, ho_succ>>

VARIABLES
    \* ---- arguments of retry_with_backoff / retry_sync (retry.py:17-28, 111-121)
    r_kind,             \* "async": retry_with_backoff, "sync": retry_sync
    max_attempts, initial_delay, max_delay, exponential_base, jitter,
    retryable_exceptions,
    \* ---- locals of the running call
    attempt,            \* the loop variable of `for attempt in range(max_attempts)`
    r_pc,               \* "ready", "running", "sleeping", "returned", "raised",
                        \* "cancelled", "parked"
    r_raised,           \* the exception that left the call (NoExc: none)
    \* ---- what the wrapped operation and the event loop saw
    r_exc,              \* the exception the last invocation raised (NoExc: none)
    r_invocations,      \* invocations of func so far
    r_sleeps,           \* the delays slept so far, in 1/100 s
    r_draws,            \* the values of random.random() drawn so far, in 1/100
    r_result            \* the invocation whose result the call returned (0: none)

rtVars == <<r_kind, max_attempts, initial_delay, max_delay, exponential_base,
            jitter, retryable_exceptions, attempt, r_pc, r_raised, r_exc,
            r_invocations, r_sleeps, r_draws, r_result>>

VARIABLES
    \* ---- NHNObjectStorageService fields (nhn_object_storage.py:42-49)
    a_token,            \* self._token: NoToken for None (or ""), else the token id
    a_expires,          \* self._token_expires: NoExpiry for None, else a time
    a_lock,             \* self._lock: 0 when free, else the task holding it
    a_config_ok,        \* the settings hold IAM user, password and tenant id
    \* ---- the environment of the service
    a_now,              \* datetime.utcnow(), in units of 5 minutes
    a_ticks,            \* advances of the clock so far
    a_pc,               \* where each task is inside _get_auth_token
    a_requests,         \* authentication requests (POST .../tokens) sent so far
    a_calls,            \* calls started so far
    \* ---- history
    a_arrival,          \* what the cache held when the waiting task called
    a_seen,             \* token of the first authentication that succeeded
                        \* while the task was waiting for the lock
    a_fallback_at,      \* when the cached credential was issued, if its expiry
                        \* is the 24 h fallback (0: it is not)
    a_event             \* what the last step did

auVars == <<a_token, a_expires, a_lock, a_config_ok, a_now, a_ticks, a_pc,
            a_requests, a_calls, a_arrival, a_seen, a_fallback_at, a_event>>

VARIABLES
    \* ---- NHNLoggerService._send_logs (nhn_logger.py:166-217)
    l_len,              \* len(logs), the size of the batch
    l_appkey,           \* settings.nhn_log_appkey is set
    l_pc,               \* "ready", "posting", "sleeping", "returned", "parked"
    l_attempt,          \* the loop variable of `for attempt in range(MAX_RETRIES)`
    l_result,           \* the value returned: "True", "False" ("none" before)
    \* ---- what the log API and the metrics saw
    l_statuses,         \* the status codes answered in the current attempt
    l_attempts,         \* send attempts started so far
    l_errors,           \* increments of external_request_errors_total
    l_sleeps            \* the delays slept so far, in seconds

lgVars == <<l_len, l_appkey, l_pc, l_attempt, l_result, l_statuses, l_attempts,
            l_errors, l_sleeps>>

VARIABLES
    \* ---- history of the breaker kept for the specifications SpecProbes and
    \* ---- SpecRecovery only
    cb_adm,             \* the state in which each running call was admitted
    healthy,            \* the dependency has recovered: operations invoked
                        \* from now on succeed
    cb_old              \* the tasks whose operation was in flight when the
                        \* dependency recovered and has not ended yet

hsVars == <<cb_adm, healthy, cb_old>>

vars == <<cbVars, rtVars, auVars, lgVars, hsVars>>

(***************************************************************************)
(* CircuitBreaker                                                          *)
(***************************************************************************)

\* CircuitBreaker.__init__
CBInit ==
    /\ failure_threshold \in 1..MaxThreshold
    /\ success_threshold \in 1..MaxThreshold
    /\ timeout \in Timeouts
    /\ state = CLOSED
    /\ failure_count = 0
    /\ success_count = 0
    /\ last_failure_time = NoTime
    /\ cb_lock = 0
    /\ now = 1
    /\ last_state_change = 1
    /\ cb_pc = [t \in Tasks |-> "idle"]
    /\ cb_event = "none"
    /\ cb_exc = "none"
    /\ cb_raised = "none"
    /\ calls = 0
    /\ run = 0
    /\ run_closed = TRUE
    /\ run_opens = 0
    /\ ho_succ = 0

\* the exception classes the wrapped operation raises in the model
OpExcTypes == {"ConnectionError", "ValueError"}

\* mutant of CooldownElapsed: the cooldown is over at one instant only
M_CooldownElapsed_Exact(lft, t, to) == lft # NoTime /\ t - lft = to

\* mutant of CooldownElapsed: the timeout is forgotten
M_CooldownElapsed_NoTimeout(lft, t, to) == lft # NoTime /\ t - lft >= 0

\* _check_and_transition: the cooldown test of lines 177-180
\* (`self.last_failure_time and time.time() - self.last_failure_time >= self.timeout`)
CooldownElapsed(lft, t, to) == lft # NoTime /\ t - lft >= to

\* mutant of CheckedState: the test for OPEN is forgotten
M_CheckedState_AnyState(st, lft, t, to) ==
    IF CooldownElapsed(lft, t, to) THEN HALF_OPEN ELSE st

\* _check_and_transition: the state after the check
CheckedState(st, lft, t, to) ==
    IF st = OPEN /\ CooldownElapsed(lft, t, to) THEN HALF_OPEN ELSE st

\* mutant of ClosesOnSuccess: the test for HALF_OPEN is forgotten
M_ClosesOnSuccess_AnyState(st, sc, sth) == sc + 1 >= sth

\* mutant of ClosesOnSuccess: the threshold is compared before the increment
M_ClosesOnSuccess_Late(st, sc, sth) == st = HALF_OPEN /\ sc >= sth

\* _on_success: HALF_OPEN closes when success_count reaches success_threshold
ClosesOnSuccess(st, sc, sth) == st = HALF_OPEN /\ sc + 1 >= sth

\* mutant of StateAfterFailure: the threshold test of the CLOSED branch is lost
M_StateAfterFailure_NoThreshold(st, fc, fth) ==
    IF st = HALF_OPEN THEN OPEN ELSE st

\* mutant of StateAfterFailure: `>` instead of `>=` in the threshold test
M_StateAfterFailure_Gt(st, fc, fth) ==
    IF st = HALF_OPEN THEN OPEN
    ELSE IF st = CLOSED /\ fc > fth THEN OPEN
    ELSE st

\* _on_failure: the state after a failure was recorded with failure_count fc
StateAfterFailure(st, fc, fth) ==
    IF st = HALF_OPEN THEN OPEN
    ELSE IF st = CLOSED /\ fc >= fth THEN OPEN
    ELSE st

\* mutant of CountedFailures: the failure is counted twice
M_CountedFailures_Twice(fc) == fc + 2

\* _on_failure line 230: `self.failure_count += 1`
CountedFailures(fc) == fc + 1

\* mutant of FailuresAfterSuccess: a success while CLOSED keeps the count
M_FailuresAfterSuccess_Kept(st, closes, fc) == IF closes THEN 0 ELSE fc

\* _on_success: failure_count after the success (lines 209 and 219-222)
FailuresAfterSuccess(st, closes, fc) ==
    IF closes \/ st = CLOSED THEN 0 ELSE fc

\* line 171: a bare `raise` re-raises the exception that was caught
Reraised(exc) == exc

\* mutant of FailureTime: only the first failure sets last_failure_time
M_FailureTime_FirstOnly(lft, t) == IF lft = NoTime THEN t ELSE lft

\* _on_failure: last_failure_time after the failure
FailureTime(lft, t) == t

\* mutant of LockWhileRunning: the lock is kept while the operation runs
M_LockWhileRunning_Held(t) == t

\* the holder of the lock while the operation of task t runs: the block of
\* line 120 ends at line 135, before func is invoked at line 138
LockWhileRunning(t) == 0

\* CircuitBreaker.call line 120: `async with self._lock` (an asyncio.Lock that
\* is free is taken without suspending; a task that finds it held waits)
Call(t) ==
    /\ cb_pc[t] = "idle"
    /\ calls < MaxCalls
    /\ cb_lock = 0
    /\ cb_lock' = t
    /\ calls' = calls + 1
    /\ cb_pc' = [cb_pc EXCEPT ![t] = "admit"]
    /\ cb_event' = "none"
    /\ cb_raised' = "none"
    /\ UNCHANGED <<failure_threshold, success_threshold, timeout, state,
                   failure_count, success_count, last_failure_time,
                   last_state_change, now, run, run_closed, run_opens, ho_succ,
                   cb_exc>>

\* CircuitBreaker.call lines 122-135: check, then reject or admit; the lock is
\* released on both ways out
Admit(t) ==
    /\ cb_pc[t] = "admit"
    /\ cb_lock = t
    /\ LET st == CheckedState(state, last_failure_time, now, timeout)
           moved == st # state
       IN /\ state' = st
          /\ success_count' = IF moved THEN 0 ELSE success_count
          /\ failure_count' = IF moved THEN 0 ELSE failure_count
          /\ last_state_change' = IF moved THEN now ELSE last_state_change
          /\ ho_succ' = IF moved THEN 0 ELSE ho_succ
          /\ IF st = OPEN
             THEN /\ cb_pc' = [cb_pc EXCEPT ![t] = "idle"]
                  /\ cb_event' = "CircuitBreakerOpenError"
             ELSE /\ cb_pc' = [cb_pc EXCEPT ![t] = "running"]
                  /\ cb_event' = "none"
    /\ cb_lock' = IF cb_pc'[t] = "running" THEN LockWhileRunning(t) ELSE 0
    /\ cb_raised' = "none"
    /\ UNCHANGED <<failure_threshold, success_threshold, timeout,
                   last_failure_time, now, calls, run, run_closed, run_opens,
                   cb_exc>>

\* the wrapped operation returns (line 142/144) and the task takes the lock of
\* line 147
OpReturns(t) ==
    /\ cb_pc[t] = "running"
    /\ cb_lock = 0
    /\ cb_lock' = t
    /\ cb_pc' = [cb_pc EXCEPT ![t] = "on_success"]
    /\ cb_event' = "none"
    /\ cb_raised' = "none"
    /\ UNCHANGED <<failure_threshold, success_threshold, timeout, state,
                   failure_count, success_count, last_failure_time,
                   last_state_change, now, calls, run, run_closed, run_opens,
                   ho_succ, cb_exc>>

\* the wrapped operation raises an Exception of class exc (caught at line 159)
\* and the task takes the lock of line 161
OpRaises(t, exc) ==
    /\ cb_pc[t] = "running"
    /\ cb_lock = 0
    /\ cb_lock' = t
    /\ cb_pc' = [cb_pc EXCEPT ![t] = "on_failure"]
    /\ cb_event' = "none"
    /\ cb_exc' = exc
    /\ cb_raised' = "none"
    /\ UNCHANGED <<failure_threshold, success_threshold, timeout, state,
                   failure_count, success_count, last_failure_time,
                   last_state_change, now, calls, run, run_closed, run_opens,
                   ho_succ>>

\* the task is cancelled where it is suspended: inside the wrapped operation
\* (lines 141-144) or waiting for the lock of line 147 or 161. CancelledError
\* is not an Exception: line 159 does not catch it, no outcome is recorded and
\* the task leaves holding no lock
CancelCall(t) ==
    /\ cb_pc[t] = "running"
    /\ cb_pc' = [cb_pc EXCEPT ![t] = "idle"]
    /\ cb_event' = "cancelled"
    /\ cb_raised' = "none"
    /\ UNCHANGED <<failure_threshold, success_threshold, timeout, state,
                   failure_count, success_count, last_failure_time, cb_lock,
                   last_state_change, now, calls, run, run_closed, run_opens,
                   ho_succ, cb_exc>>

\* lines 147-157: _on_success under the lock, then return result
OnSuccess(t) ==
    /\ cb_pc[t] = "on_success"
    /\ cb_lock = t
    /\ LET closes == ClosesOnSuccess(state, success_count, success_threshold)
       IN /\ state' = IF closes THEN CLOSED ELSE state
          /\ success_count' = IF state = HALF_OPEN
                              THEN (IF closes THEN 0 ELSE success_count + 1)
                              ELSE success_count
          /\ failure_count' = FailuresAfterSuccess(state, closes, failure_count)
          /\ last_state_change' = IF closes THEN now ELSE last_state_change
          /\ ho_succ' = IF state = HALF_OPEN THEN ho_succ + 1 ELSE ho_succ
    /\ cb_lock' = 0
    /\ cb_pc' = [cb_pc EXCEPT ![t] = "idle"]
    /\ cb_event' = "returned"
    /\ run' = 0
    /\ run_opens' = 0
    /\ run_closed' = (state' = CLOSED)
    /\ cb_raised' = "none"
    /\ UNCHANGED <<failure_threshold, success_threshold, timeout,
                   last_failure_time, now, calls, cb_exc>>

\* lines 159-171: _on_failure under the lock, then re-raise
OnFailure(t) ==
    /\ cb_pc[t] = "on_failure"
    /\ cb_lock = t
    /\ failure_count' = CountedFailures(failure_count)
    /\ last_failure_time' = FailureTime(last_failure_time, now)
    /\ state' = StateAfterFailure(state, failure_count', failure_threshold)
    /\ last_state_change' = IF state' # state THEN now ELSE last_state_change
    /\ cb_lock' = 0
    /\ cb_pc' = [cb_pc EXCEPT ![t] = "idle"]
    /\ cb_event' = "reraised"
    /\ cb_raised' = Reraised(cb_exc)
    /\ cb_exc' = "none"
    /\ run' = run + 1
    /\ run_opens' = IF state = CLOSED /\ state' = OPEN THEN run_opens + 1 ELSE run_opens
    /\ UNCHANGED <<failure_threshold, success_threshold, timeout, success_count,
                   now, calls, run_closed, ho_succ>>

\* the wall clock advances
Tick ==
    /\ now < MaxTime
    /\ now' = now + 1
    /\ cb_event' = "none"
    /\ cb_raised' = "none"
    /\ UNCHANGED <<failure_threshold, success_threshold, timeout, state,
                   failure_count, success_count, last_failure_time, cb_lock,
                   last_state_change, cb_pc, calls, run, run_closed, run_opens,
                   ho_succ, cb_exc>>

\* no task uses the breaker
BreakerParked ==
    /\ failure_threshold = 1 /\ success_threshold = 1 /\ timeout = 1
    /\ state = CLOSED /\ failure_count = 0 /\ success_count = 0
    /\ last_failure_time = NoTime /\ cb_lock = 0 /\ now = 1
    /\ last_state_change = 1
    /\ cb_pc = [t \in Tasks |-> "idle"]
    /\ cb_event = "none" /\ cb_exc = "none" /\ cb_raised = "none"
    /\ calls = MaxCalls
    /\ run = 0 /\ run_closed = TRUE /\ run_opens = 0 /\ ho_succ = 0

(***************************************************************************)
(* retry_with_backoff / retry_sync                                         *)
(***************************************************************************)

\* `last_exception: Optional[Exception] = None`
NoExc == [id |-> 0, type |-> "None"]

\* the exception classes the wrapped operation raises in the model
ExcTypes == {"ConnectionError", "ValueError", "CircuitBreakerOpenError"}

\* mutant of Mro: asyncio.CancelledError as a subclass of Exception
M_Mro_CancelledIsException(ty) ==
    IF ty = "ConnectionError" THEN {"ConnectionError", "OSError", "Exception"}
    ELSE {ty, "Exception"}

\* the classes an exception of class ty is an instance of (its MRO up to
\* Exception, or up to BaseException for asyncio.CancelledError)
Mro(ty) ==
    IF ty = "ConnectionError" THEN {"ConnectionError", "OSError", "Exception"}
    ELSE IF ty = "CancelledError" THEN {"CancelledError", "BaseException"}
    ELSE {ty, "Exception"}

\* mutant of Caught: a bare `except Exception`
M_Caught_All(ty, classes) == TRUE

\* `except retryable_exceptions as e`: the clause matches by isinstance
Caught(ty, classes) == Mro(ty) \cap classes # {}

\* the retryable_exceptions tuples that are tried; (Exception,) is the default
RetryableChoices ==
    {{"Exception"}, {"OSError"}, {"ConnectionError", "ValueError"}, {}}

\* (initial_delay, max_delay, exponential_base); the first is the default
DelayChoices == {<<1, 10, 2>>, <<2, 9, 3>>}

\* random.random() in [0, 1), in hundredths
RandomChoices == {0, 50, 99}

RECURSIVE Pow(_, _)
\* exponential_base ** attempt
Pow(b, e) == IF e = 0 THEN 1 ELSE b * Pow(b, e - 1)

Min(a, b) == IF a <= b THEN a ELSE b

\* mutant of BackoffDelay: the cap max_delay is forgotten
M_BackoffDelay_NoCap(init, base, cap, i) == init * Pow(base, i)

\* lines 80-83 (163-166): delay = min(initial_delay * base ** attempt, max_delay)
BackoffDelay(init, base, cap, i) == Min(init * Pow(base, i), cap)

\* line 87: delay * (0.5 + random.random() * 0.5), for a delay in seconds and
\* random.random() = r / 100; the result is in 1/100 s
Jittered(delay, r) == delay * (50 + (r * 50) \div 100)

\* mutant of ReturnedResult: the result of the attempt before is returned
M_ReturnedResult_Previous(inv) == inv - 1

\* lines 55/57 (144): `return await func(...)`: the result of this invocation
ReturnedResult(inv) == inv

\* mutant of IsLastAttempt: off by one
M_IsLastAttempt_OffByOne(i, n) == i = n

\* line 63 (148): `if attempt == max_attempts - 1`
IsLastAttempt(i, n) == i = n - 1

\* the arguments of the call
RetryInit ==
    /\ r_kind \in {"async", "sync"}
    /\ max_attempts \in 0..MaxAttempts
    /\ \E d \in DelayChoices :
          /\ initial_delay = d[1]
          /\ max_delay = d[2]
          /\ exponential_base = d[3]
    /\ jitter \in (IF r_kind = "async" THEN BOOLEAN ELSE {FALSE})
    /\ retryable_exceptions \in RetryableChoices
    /\ attempt = 0
    /\ r_pc = "ready"
    /\ r_raised = NoExc
    /\ r_exc = NoExc
    /\ r_invocations = 0
    /\ r_sleeps = <<>>
    /\ r_draws = <<>>
    /\ r_result = 0

\* no call of the retry wrapper is running
RetryParked ==
    /\ r_kind = "async" /\ max_attempts = 0
    /\ initial_delay = 1 /\ max_delay = 10 /\ exponential_base = 2
    /\ jitter = FALSE /\ retryable_exceptions = {"Exception"}
    /\ attempt = 0 /\ r_pc = "parked" /\ r_raised = NoExc /\ r_exc = NoExc
    /\ r_invocations = 0 /\ r_sleeps = <<>> /\ r_draws = <<>> /\ r_result = 0

\* lines 51-57 (142-144): the loop body starts and func is invoked
Invoke ==
    /\ r_pc = "ready"
    /\ attempt < max_attempts
    /\ r_pc' = "running"
    /\ r_invocations' = r_invocations + 1
    /\ r_exc' = NoExc
    /\ UNCHANGED <<r_kind, max_attempts, initial_delay, max_delay,
                   exponential_base, jitter, retryable_exceptions, attempt,
                   r_raised, r_sleeps, r_draws, r_result>>

\* lines 55/57 (144): func returned and its result is returned
FuncReturns ==
    /\ r_pc = "running"
    /\ r_pc' = "returned"
    /\ r_result' = ReturnedResult(r_invocations)
    /\ UNCHANGED <<r_kind, max_attempts, initial_delay, max_delay,
                   exponential_base, jitter, retryable_exceptions, attempt,
                   r_raised, r_exc, r_invocations, r_sleeps, r_draws>>

\* lines 59-103 (145-182): func raised an exception of class ty; it propagates
\* when the except clause does not match or on the last attempt (`raise`),
\* else the delay is computed and the sleep begins
FuncRaises(ty, r) ==
    /\ r_pc = "running"
    /\ LET e == [id |-> r_invocations, type |-> ty]
           d == BackoffDelay(initial_delay, exponential_base, max_delay, attempt)
       IN /\ r_exc' = e
          /\ IF ~Caught(ty, retryable_exceptions)
                \/ IsLastAttempt(attempt, max_attempts)
             THEN /\ r_pc' = "raised"
                  /\ r_raised' = e
                  /\ r_sleeps' = r_sleeps
                  /\ r_draws' = r_draws
             ELSE /\ r_pc' = "sleeping"
                  /\ r_raised' = r_raised
                  /\ r_sleeps' = Append(r_sleeps,
                                        IF jitter THEN Jittered(d, r) ELSE d * 100)
                  /\ r_draws' = IF jitter THEN Append(r_draws, r) ELSE r_draws
    /\ UNCHANGED <<r_kind, max_attempts, initial_delay, max_delay,
                   exponential_base, jitter, retryable_exceptions, attempt,
                   r_invocations, r_result>>

\* line 103 (182): the sleep is over and the loop goes to its next attempt
Wake ==
    /\ r_pc = "sleeping"
    /\ attempt' = attempt + 1
    /\ r_pc' = "ready"
    /\ UNCHANGED <<r_kind, max_attempts, initial_delay, max_delay,
                   exponential_base, jitter, retryable_exceptions, r_raised,
                   r_exc, r_invocations, r_sleeps, r_draws, r_result>>

\* lines 105-108 (184-186): the loop ended without returning or raising
LoopEnds ==
    /\ r_pc = "ready"
    /\ attempt >= max_attempts
    /\ r_pc' = "raised"
    /\ r_raised' = IF r_exc # NoExc THEN r_exc
                   ELSE [id |-> 0, type |-> "RuntimeError"]
    /\ UNCHANGED <<r_kind, max_attempts, initial_delay, max_delay,
                   exponential_base, jitter, retryable_exceptions, attempt,
                   r_exc, r_invocations, r_sleeps, r_draws, r_result>>

\* the task running retry_with_backoff is cancelled where it is suspended.
\* Inside func (line 55) CancelledError is raised in the try block and meets
\* `except retryable_exceptions` (line 59); inside asyncio.sleep (line 103) it
\* is raised in the except block, which no clause guards. retry_sync blocks
\* in time.sleep and has no suspension point
RetryCancel(r) ==
    /\ r_kind = "async"
    /\ r_pc \in {"running", "sleeping"}
    /\ LET d == BackoffDelay(initial_delay, exponential_base, max_delay, attempt)
       IN IF r_pc = "running" /\ Caught("CancelledError", retryable_exceptions)
                              /\ ~IsLastAttempt(attempt, max_attempts)
          THEN /\ r_pc' = "sleeping"
               /\ r_raised' = r_raised
               /\ r_sleeps' = Append(r_sleeps,
                                     IF jitter THEN Jittered(d, r) ELSE d * 100)
               /\ r_draws' = IF jitter THEN Append(r_draws, r) ELSE r_draws
          ELSE /\ r_pc' = "cancelled"
               /\ r_raised' = [id |-> 0, type |-> "CancelledError"]
               /\ r_sleeps' = r_sleeps
               /\ r_draws' = r_draws
    /\ UNCHANGED <<r_kind, max_attempts, initial_delay, max_delay,
                   exponential_base, jitter, retryable_exceptions, attempt,
                   r_exc, r_invocations, r_result>>

NextRetry ==
    \/ Invoke /\ UNCHANGED <<cbVars, auVars, lgVars, hsVars>>
    \/ FuncReturns /\ UNCHANGED <<cbVars, auVars, lgVars, hsVars>>
    \/ \E ty \in ExcTypes, r \in RandomChoices : FuncRaises(ty, r) /\ UNCHANGED <<cbVars, auVars, lgVars, hsVars>>
    \/ Wake /\ UNCHANGED <<cbVars, auVars, lgVars, hsVars>>
    \/ LoopEnds /\ UNCHANGED <<cbVars, auVars, lgVars, hsVars>>
    \/ \E r \in RandomChoices : RetryCancel(r) /\ UNCHANGED <<cbVars, auVars, lgVars, hsVars>>

(***************************************************************************)
(* NHNObjectStorageService._get_auth_token                                 *)
(* Times are in units of 5 minutes.                                        *)
(***************************************************************************)

\* `self._token: Optional[str] = None`
NoToken == 0
\* `self._token_expires: Optional[datetime] = None`
NoExpiry == 0
\* timedelta(minutes=5), lines 63 and 73
RefreshMargin == 1
\* timedelta(hours=24), line 188
FallbackLifetime == 288

\* by how much the clock advances in one step
TickChoices == {1, FallbackLifetime - RefreshMargin - 1}

\* lifetimes of the tokens the identity service issues (0: expired on arrival)
LifetimeChoices == {0, 1, 2}
\* UTC offsets of the `expires` timestamp of a response ("Z" is 0)
OffsetChoices == {0, 3}

\* what comes back from `client.post(auth_url, ...)`
Responses ==
    {[kind |-> k, has_id |-> FALSE, expires |-> "omitted", life |-> 0, offset |-> 0]
        : k \in {"network_error", "unparsable", "status"}}
    \cup {[kind |-> "ok", has_id |-> FALSE, expires |-> "omitted", life |-> 0, offset |-> 0]}
    \cup {[kind |-> "ok", has_id |-> TRUE, expires |-> e, life |-> 0, offset |-> 0]
        : e \in {"omitted", "malformed"}}
    \cup {[kind |-> "ok", has_id |-> TRUE, expires |-> "iso", life |-> l, offset |-> o]
        : l \in LifetimeChoices, o \in OffsetChoices}

\* mutant of Usable: the refresh margin is forgotten
M_Usable_NoMargin(tok, exp, t) == tok # NoToken /\ exp # NoExpiry /\ t < exp

\* lines 60-64 and 70-74: the cached token is still valid, with 5 minutes to spare
Usable(tok, exp, t) == tok # NoToken /\ exp # NoExpiry /\ t < exp - RefreshMargin

\* mutant of Recheck: the second check looks at the token only
M_Recheck_TokenOnly(tok, exp, t) == tok # NoToken

\* mutant of Recheck: no second check under the lock
M_Recheck_None(tok, exp, t) == FALSE

\* lines 69-75: the double check after the lock was acquired
Recheck(tok, exp, t) == Usable(tok, exp, t)

\* lines 183-185: fromisoformat(expires_str.replace("Z", "+00:00")).replace(tzinfo=None)
\* keeps the wall-clock reading of the timestamp and drops its offset
ParseExpires(at, offset) == at + offset

\* the response is an authentication that succeeded (lines 113-213 raise nothing)
Succeeds(resp) == resp.kind = "ok" /\ resp.has_id /\ resp.expires # "malformed"

\* self._token after the response was processed: line 167 assigns it before the
\* checks of lines 168 and 181-185
TokenAfter(tok, resp, id) ==
    IF resp.kind = "ok" THEN (IF resp.has_id THEN id ELSE NoToken) ELSE tok

\* mutant of ExpiresAfter: a token issued without expiry is cached as already
\* expired
M_ExpiresAfter_NoFallback(exp, resp, t) ==
    IF resp.kind = "ok" /\ resp.has_id
    THEN CASE resp.expires = "iso" -> ParseExpires(t + resp.life, resp.offset)
           [] resp.expires = "omitted" -> t
           [] OTHER -> exp
    ELSE exp

\* self._token_expires after the response was processed (lines 180-188)
ExpiresAfter(exp, resp, t) ==
    IF resp.kind = "ok" /\ resp.has_id
    THEN CASE resp.expires = "iso" -> ParseExpires(t + resp.life, resp.offset)
           [] resp.expires = "omitted" -> t + FallbackLifetime
           [] OTHER -> exp
    ELSE exp

\* what the cache holds for a caller that is about to wait for the lock
Arrival(tok, exp, t) ==
    IF tok = NoToken \/ exp = NoExpiry THEN "none"
    ELSE IF t < exp THEN "margin" ELSE "expired"

NoEvent == [task |-> 0, kind |-> "none", via |-> "none", token |-> NoToken,
            seen |-> NoToken, arrival |-> "none", expires |-> "none"]

\* mutant of LockFree: the lock is not looked at
M_LockFree_Always(l) == TRUE

\* `async with self._lock` (line 68) is entered only when no task holds the lock
LockFree(l) == l = 0

\* mutant of LockAfterExit: the lock stays with the task that left
M_LockAfterExit_Kept(l, t) == l

\* the lock after task t left the `async with self._lock` block (by return, by
\* an exception or by cancellation) or gave up waiting for it
LockAfterExit(l, t) == IF l = t THEN 0 ELSE l

\* when the credential was issued if its expiry is the fallback of line 188,
\* else 0; a response that changes the cached token in any other way clears it
FallbackAt(at, resp, t, tok, tok2) ==
    IF resp.kind = "ok" /\ resp.has_id /\ resp.expires = "omitted" THEN t
    ELSE IF tok2 # tok THEN 0
    ELSE at

\* NHNObjectStorageService.__init__
AuthInit ==
    /\ a_token = NoToken
    /\ a_expires = NoExpiry
    /\ a_lock = 0
    /\ a_config_ok \in BOOLEAN
    /\ a_now = 1
    /\ a_ticks = 0
    /\ a_pc = [t \in Tasks |-> "idle"]
    /\ a_requests = 0
    /\ a_calls = 0
    /\ a_arrival = [t \in Tasks |-> "none"]
    /\ a_seen = [t \in Tasks |-> NoToken]
    /\ a_fallback_at = 0
    /\ a_event = NoEvent

\* no task uses the storage service
AuthParked ==
    /\ a_token = NoToken /\ a_expires = NoExpiry /\ a_lock = 0
    /\ a_config_ok = TRUE /\ a_now = 1 /\ a_ticks = MaxTicks
    /\ a_pc = [t \in Tasks |-> "idle"]
    /\ a_requests = 0 /\ a_calls = MaxAuthCalls
    /\ a_arrival = [t \in Tasks |-> "none"]
    /\ a_seen = [t \in Tasks |-> NoToken]
    /\ a_fallback_at = 0
    /\ a_event = NoEvent

\* lines 59-68: the check without the lock; the cached token is returned, or
\* the task goes on to `async with self._lock`
GetAuthToken(t) ==
    /\ a_pc[t] = "idle"
    /\ a_calls < MaxAuthCalls
    /\ a_calls' = a_calls + 1
    /\ IF Usable(a_token, a_expires, a_now)
       THEN /\ a_pc' = a_pc
            /\ a_arrival' = a_arrival
            /\ a_event' = [NoEvent EXCEPT !.task = t, !.kind = "token",
                                          !.via = "fast", !.token = a_token]
       ELSE /\ a_pc' = [a_pc EXCEPT ![t] = "wait_lock"]
            /\ a_arrival' = [a_arrival EXCEPT ![t] = Arrival(a_token, a_expires, a_now)]
            /\ a_event' = [NoEvent EXCEPT !.task = t]
    /\ a_seen' = [a_seen EXCEPT ![t] = NoToken]
    /\ UNCHANGED <<a_token, a_expires, a_lock, a_config_ok, a_now, a_ticks,
                   a_requests, a_fallback_at>>

\* lines 68-112: the lock is acquired and the check repeated; the cached token
\* is returned, or the missing settings raise, or the request is sent and the
\* task waits for the response holding the lock
Locked(t) ==
    /\ a_pc[t] = "wait_lock"
    /\ LockFree(a_lock)
    /\ IF Recheck(a_token, a_expires, a_now)
       THEN /\ a_pc' = [a_pc EXCEPT ![t] = "idle"]
            /\ a_lock' = 0
            /\ a_requests' = a_requests
            /\ a_event' = [NoEvent EXCEPT !.task = t, !.kind = "token",
                                          !.via = "recheck", !.token = a_token,
                                          !.seen = a_seen[t],
                                          !.arrival = a_arrival[t]]
       ELSE IF ~a_config_ok
       THEN /\ a_pc' = [a_pc EXCEPT ![t] = "idle"]
            /\ a_lock' = 0
            /\ a_requests' = a_requests
            /\ a_event' = [NoEvent EXCEPT !.task = t, !.kind = "error",
                                          !.via = "config"]
       ELSE /\ a_pc' = [a_pc EXCEPT ![t] = "in_flight"]
            /\ a_lock' = t
            /\ a_requests' = a_requests + 1
            /\ a_event' = [NoEvent EXCEPT !.task = t, !.via = "request"]
    /\ a_arrival' = [a_arrival EXCEPT ![t] = "none"]
    /\ a_seen' = [a_seen EXCEPT ![t] = NoToken]
    /\ UNCHANGED <<a_token, a_expires, a_config_ok, a_now, a_ticks, a_calls,
                   a_fallback_at>>

\* lines 108-249: the response (or the network error) arrives and is processed;
\* the token is returned or an Exception raised, and the lock released
Response(t, resp) ==
    /\ a_pc[t] = "in_flight"
    /\ a_lock = t
    /\ a_token' = TokenAfter(a_token, resp, a_requests)
    /\ a_expires' = ExpiresAfter(a_expires, resp, a_now)
    /\ a_fallback_at' = FallbackAt(a_fallback_at, resp, a_now, a_token, a_token')
    /\ a_lock' = LockAfterExit(a_lock, t)
    /\ a_pc' = [a_pc EXCEPT ![t] = "idle"]
    /\ a_seen' = [u \in Tasks |->
                    IF Succeeds(resp) /\ a_pc[u] = "wait_lock" /\ a_seen[u] = NoToken
                    THEN a_token' ELSE a_seen[u]]
    /\ a_event' = [NoEvent EXCEPT
                      !.task = t,
                      !.kind = IF Succeeds(resp) THEN "token" ELSE "error",
                      !.via = "refresh",
                      !.token = IF Succeeds(resp) THEN a_token' ELSE NoToken,
                      !.expires = IF Succeeds(resp) THEN resp.expires ELSE "none"]
    /\ UNCHANGED <<a_config_ok, a_now, a_ticks, a_requests, a_calls, a_arrival>>

\* the task is cancelled where it is suspended: waiting for the lock (line 68)
\* or for the response (lines 105-112). CancelledError is not an Exception, so
\* no except clause of lines 215-249 handles it; `async with` releases the lock
\* on the way out and the cache is not touched
AuthCancel(t) ==
    /\ a_pc[t] \in {"wait_lock", "in_flight"}
    /\ a_pc' = [a_pc EXCEPT ![t] = "idle"]
    /\ a_lock' = LockAfterExit(a_lock, t)
    /\ a_arrival' = [a_arrival EXCEPT ![t] = "none"]
    /\ a_seen' = [a_seen EXCEPT ![t] = NoToken]
    /\ a_event' = [NoEvent EXCEPT !.task = t, !.kind = "cancelled",
                                  !.via = a_pc[t]]
    /\ UNCHANGED <<a_token, a_expires, a_config_ok, a_now, a_ticks, a_requests,
                   a_calls, a_fallback_at>>

\* datetime.utcnow() advances
AuthTick(d) ==
    /\ a_ticks < MaxTicks
    /\ a_ticks' = a_ticks + 1
    /\ a_now' = a_now + d
    /\ a_event' = NoEvent
    /\ UNCHANGED <<a_token, a_expires, a_lock, a_config_ok, a_pc, a_requests,
                   a_calls, a_arrival, a_seen, a_fallback_at>>

NextAuth ==
    \/ \E t \in Tasks : GetAuthToken(t) /\ UNCHANGED <<cbVars, rtVars, lgVars, hsVars>>
    \/ \E t \in Tasks : Locked(t) /\ UNCHANGED <<cbVars, rtVars, lgVars, hsVars>>
    \/ \E t \in Tasks, resp \in Responses : Response(t, resp) /\ UNCHANGED <<cbVars, rtVars, lgVars, hsVars>>
    \/ \E t \in Tasks : AuthCancel(t) /\ UNCHANGED <<cbVars, rtVars, lgVars, hsVars>>
    \/ \E d \in TickChoices : AuthTick(d) /\ UNCHANGED <<cbVars, rtVars, lgVars, hsVars>>

(***************************************************************************)
(* NHNLoggerService._send_logs                                             *)
(***************************************************************************)

\* `MAX_RETRIES = 3`
MAX_RETRIES == 3

\* what a `client.post` of one log ends in: a status code or an exception
PostOutcomes == {"200", "500", "exception"}

\* the arguments of the call and the settings
LoggerInit ==
    /\ l_len \in 0..MaxBatch
    /\ l_appkey \in BOOLEAN
    /\ l_pc = "ready"
    /\ l_attempt = 0
    /\ l_result = "none"
    /\ l_statuses = <<>>
    /\ l_attempts = 0
    /\ l_errors = 0
    /\ l_sleeps = <<>>

\* no call of _send_logs is running
LoggerParked ==
    /\ l_len = 0 /\ l_appkey = FALSE /\ l_pc = "parked" /\ l_attempt = 0
    /\ l_result = "none" /\ l_statuses = <<>> /\ l_attempts = 0
    /\ l_errors = 0 /\ l_sleeps = <<>>

\* lines 176-184: nothing to send returns True, else the first attempt starts
SendLogs ==
    /\ l_pc = "ready"
    /\ IF l_len = 0 \/ ~l_appkey
       THEN /\ l_pc' = "returned"
            /\ l_result' = "True"
            /\ l_attempts' = l_attempts
       ELSE /\ l_pc' = "posting"
            /\ l_result' = l_result
            /\ l_attempts' = l_attempts + 1
    /\ UNCHANGED <<l_len, l_appkey, l_attempt, l_statuses, l_errors, l_sleeps>>

\* the value returned when the loop over the logs ends (line 198); a non-200
\* answer only `continue`s that loop (lines 195-196)
AfterAllPosted(statuses) == "True"

\* lines 187-212: one `client.post` ends. A status code, 200 or not, goes on
\* to the next log and after the last log True is returned; an exception ends
\* the attempt: a sleep of attempt + 1 seconds follows, or after the last
\* attempt the error counter is incremented and False returned
Post(o) ==
    /\ l_pc = "posting"
    /\ IF o = "exception"
       THEN /\ l_statuses' = l_statuses
            /\ IF l_attempt < MAX_RETRIES - 1
               THEN /\ l_pc' = "sleeping"
                    /\ l_sleeps' = Append(l_sleeps, 1 * (l_attempt + 1))
                    /\ l_result' = l_result
                    /\ l_errors' = l_errors
               ELSE /\ l_pc' = "returned"
                    /\ l_sleeps' = l_sleeps
                    /\ l_result' = "False"
                    /\ l_errors' = l_errors + 1
       ELSE /\ l_statuses' = Append(l_statuses, o)
            /\ l_sleeps' = l_sleeps
            /\ l_errors' = l_errors
            /\ IF Len(l_statuses) + 1 = l_len
               THEN /\ l_pc' = "returned"
                    /\ l_result' = AfterAllPosted(l_statuses')
               ELSE /\ l_pc' = "posting"
                    /\ l_result' = l_result
    /\ UNCHANGED <<l_len, l_appkey, l_attempt, l_attempts>>

\* lines 201-203: the sleep is over, `continue` starts the next attempt with
\* the first log of the batch
LoggerWake ==
    /\ l_pc = "sleeping"
    /\ l_pc' = "posting"
    /\ l_attempt' = l_attempt + 1
    /\ l_attempts' = l_attempts + 1
    /\ l_statuses' = <<>>
    /\ UNCHANGED <<l_len, l_appkey, l_result, l_errors, l_sleeps>>

NextLogger ==
    \/ SendLogs /\ UNCHANGED <<cbVars, rtVars, auVars, hsVars>>
    \/ \E o \in PostOutcomes : Post(o) /\ UNCHANGED <<cbVars, rtVars, auVars, hsVars>>
    \/ LoggerWake /\ UNCHANGED <<cbVars, rtVars, auVars, hsVars>>

\* no history of admissions is kept
HistoryParked ==
    /\ cb_adm = [t \in Tasks |-> "none"]
    /\ healthy = FALSE
    /\ cb_old = {}

NextBreaker ==
    \/ \E t \in Tasks : Call(t) /\ UNCHANGED <<rtVars, auVars, lgVars, hsVars>>
    \/ \E t \in Tasks : Admit(t) /\ UNCHANGED <<rtVars, auVars, lgVars, hsVars>>
    \/ \E t \in Tasks : OpReturns(t) /\ UNCHANGED <<rtVars, auVars, lgVars, hsVars>>
    \/ \E t \in Tasks, exc \in OpExcTypes : OpRaises(t, exc) /\ UNCHANGED <<rtVars, auVars, lgVars, hsVars>>
    \/ \E t \in Tasks : CancelCall(t) /\ UNCHANGED <<rtVars, auVars, lgVars, hsVars>>
    \/ \E t \in Tasks : OnSuccess(t) /\ UNCHANGED <<rtVars, auVars, lgVars, hsVars>>
    \/ \E t \in Tasks : OnFailure(t) /\ UNCHANGED <<rtVars, auVars, lgVars, hsVars>>
    \/ Tick /\ UNCHANGED <<rtVars, auVars, lgVars, hsVars>>

\* the state each call was admitted in, kept while the call runs and records
AdmTracked ==
    cb_adm' = [t \in Tasks |->
                 IF cb_pc'[t] \notin {"running", "on_success", "on_failure"}
                 THEN "none"
                 ELSE IF cb_pc[t] = "admit" THEN state'
                 ELSE cb_adm[t]]

\* the breaker with the history of admissions
NextProbes ==
    \/ \E t \in Tasks : Call(t) /\ AdmTracked /\ UNCHANGED <<rtVars, auVars, lgVars, healthy, cb_old>>
    \/ \E t \in Tasks : Admit(t) /\ AdmTracked /\ UNCHANGED <<rtVars, auVars, lgVars, healthy, cb_old>>
    \/ \E t \in Tasks : OpReturns(t) /\ AdmTracked /\ UNCHANGED <<rtVars, auVars, lgVars, healthy, cb_old>>
    \/ \E t \in Tasks, exc \in OpExcTypes : OpRaises(t, exc) /\ AdmTracked /\ UNCHANGED <<rtVars, auVars, lgVars, healthy, cb_old>>
    \/ \E t \in Tasks : CancelCall(t) /\ AdmTracked /\ UNCHANGED <<rtVars, auVars, lgVars, healthy, cb_old>>
    \/ \E t \in Tasks : OnSuccess(t) /\ AdmTracked /\ UNCHANGED <<rtVars, auVars, lgVars, healthy, cb_old>>
    \/ \E t \in Tasks : OnFailure(t) /\ AdmTracked /\ UNCHANGED <<rtVars, auVars, lgVars, healthy, cb_old>>
    \/ Tick /\ AdmTracked /\ UNCHANGED <<rtVars, auVars, lgVars, healthy, cb_old>>

\* one breaker used by Tasks; no retry call is running
InitBreaker == CBInit /\ RetryParked /\ AuthParked /\ LoggerParked /\ HistoryParked
SpecBreaker == InitBreaker /\ [][NextBreaker]_vars

\* one breaker used by Tasks, with the history of admissions
SpecProbes == InitBreaker /\ [][NextProbes]_vars

\* the dependency recovers: the operations in flight may still fail, every
\* operation invoked later succeeds
Recover ==
    /\ ~healthy
    /\ calls >= 1
    /\ healthy' = TRUE
    /\ cb_old' = {t \in Tasks : cb_pc[t] = "running"}
    /\ calls' = MaxCalls          \* the calls are no longer counted
    /\ UNCHANGED <<failure_threshold, success_threshold, timeout, state,
                   failure_count, success_count, last_failure_time,
                   last_state_change, cb_lock, now, cb_pc, cb_event, run,
                   run_closed, run_opens, ho_succ, cb_exc, cb_raised, cb_adm>>

\* cb_old after a step of the breaker: a task whose call has ended is dropped
OldTracked ==
    /\ cb_old' = {t \in cb_old : cb_pc'[t] \in {"running", "on_success", "on_failure"}}
    /\ UNCHANGED <<healthy, cb_adm>>

\* a further call of CircuitBreaker.call, beyond the MaxCalls that are counted
CallAgain(t) ==
    /\ healthy
    /\ calls = MaxCalls
    /\ cb_pc[t] = "idle"
    /\ cb_lock = 0
    /\ cb_lock' = t
    /\ cb_pc' = [cb_pc EXCEPT ![t] = "admit"]
    /\ cb_event' = "none"
    /\ cb_raised' = "none"
    /\ UNCHANGED <<failure_threshold, success_threshold, timeout, state,
                   failure_count, success_count, last_failure_time,
                   last_state_change, now, run, run_closed, run_opens, ho_succ,
                   cb_exc, calls>>

\* a time t of the past as read after the clock origin moved by one unit; times
\* older than MaxTime - 1 units are all read as 1, and MaxTime - 1 exceeds
\* every timeout of Timeouts
Aged(t) == IF t > 1 THEN t - 1 ELSE t

\* the wall clock advances beyond MaxTime: now stays MaxTime and the recorded
\* times age instead, which keeps every difference now - t that the breaker
\* computes
TickOn ==
    /\ healthy
    /\ now = MaxTime
    /\ last_failure_time' = Aged(last_failure_time)
    /\ last_state_change' = Aged(last_state_change)
    /\ cb_event' = "none"
    /\ cb_raised' = "none"
    /\ UNCHANGED <<failure_threshold, success_threshold, timeout, state,
                   failure_count, success_count, cb_lock, now, cb_pc, calls, run,
                   run_closed, run_opens, ho_succ, cb_exc>>

\* the breaker before and after the dependency recovers
NextRecovery ==
    \/ \E t \in Tasks :
          calls < RecoveryCalls /\ Call(t) /\ OldTracked /\ UNCHANGED <<rtVars, auVars, lgVars>>
    \/ \E t \in Tasks : CallAgain(t) /\ OldTracked /\ UNCHANGED <<rtVars, auVars, lgVars>>
    \/ \E t \in Tasks : Admit(t) /\ OldTracked /\ UNCHANGED <<rtVars, auVars, lgVars>>
    \/ \E t \in Tasks : OpReturns(t) /\ OldTracked /\ UNCHANGED <<rtVars, auVars, lgVars>>
    \/ \E t \in Tasks, exc \in OpExcTypes :
          (~healthy \/ t \in cb_old) /\ OpRaises(t, exc) /\ OldTracked /\ UNCHANGED <<rtVars, auVars, lgVars>>
    \/ \E t \in Tasks :
          (~healthy \/ t \in cb_old) /\ CancelCall(t) /\ OldTracked /\ UNCHANGED <<rtVars, auVars, lgVars>>
    \/ \E t \in Tasks : OnSuccess(t) /\ OldTracked /\ UNCHANGED <<rtVars, auVars, lgVars>>
    \/ \E t \in Tasks : OnFailure(t) /\ OldTracked /\ UNCHANGED <<rtVars, auVars, lgVars>>
    \/ Tick /\ OldTracked /\ UNCHANGED <<rtVars, auVars, lgVars>>
    \/ TickOn /\ OldTracked /\ UNCHANGED <<rtVars, auVars, lgVars>>
    \/ Recover /\ UNCHANGED <<rtVars, auVars, lgVars>>

\* once the dependency has recovered: time keeps advancing, calls keep
\* arriving, the locked sections run to their end (they contain no suspension
\* point) and every operation in flight ends
RecoveryFairness ==
    /\ WF_vars((Tick \/ TickOn) /\ OldTracked /\ UNCHANGED <<rtVars, auVars, lgVars>>)
    /\ SF_vars(\E t \in Tasks :
                  CallAgain(t) /\ OldTracked
                      /\ UNCHANGED <<rtVars, auVars, lgVars>>)
    /\ WF_vars(\E t \in Tasks :
                  (Admit(t) \/ OnSuccess(t) \/ OnFailure(t)) /\ OldTracked
                      /\ UNCHANGED <<rtVars, auVars, lgVars>>)
    /\ \A t \in Tasks :
          SF_vars(OpReturns(t) /\ OldTracked /\ UNCHANGED <<rtVars, auVars, lgVars>>)
SpecRecovery == InitBreaker /\ [][NextRecovery]_vars /\ RecoveryFairness

\* one call of retry_with_backoff or retry_sync; the breaker is not used
InitRetry == RetryInit /\ BreakerParked /\ AuthParked /\ LoggerParked /\ HistoryParked
SpecRetry == InitRetry /\ [][NextRetry]_vars

\* one storage service used by Tasks; breaker and retry wrapper are not used
InitAuth == AuthInit /\ BreakerParked /\ RetryParked /\ LoggerParked /\ HistoryParked

\* one call of _send_logs; nothing else is used
InitLogger ==
    LoggerInit /\ BreakerParked /\ RetryParked /\ AuthParked /\ HistoryParked
SpecLogger == InitLogger /\ [][NextLogger]_vars
SpecAuth == InitAuth /\ [][NextAuth]_vars

\* the two components that guard state with an asyncio.Lock, each used on its
\* own by Tasks: a behaviour is a behaviour of the breaker or one of the
\* storage service
InitLocks == InitBreaker \/ InitAuth
NextLocks ==
    \/ AuthParked /\ NextBreaker
    \/ BreakerParked /\ NextAuth

\* the sections of CircuitBreaker.call that hold the lock (lines 120-135, 147-148,
\* 161-162) contain no suspension point and run to their end; the request of
\* lines 105-112 has a 30 s timeout, so a response or an error arrives; a free
\* asyncio.Lock with waiters wakes one of them, which takes it
LocksFairness ==
    /\ WF_vars(\E t \in Tasks :
                  (Admit(t) \/ OnSuccess(t) \/ OnFailure(t))
                      /\ UNCHANGED <<rtVars, auVars, lgVars, hsVars>>)
    /\ WF_vars(\E t \in Tasks, resp \in Responses :
                  Response(t, resp) /\ UNCHANGED <<cbVars, rtVars, lgVars, hsVars>>)
    /\ WF_vars(\E u \in Tasks : Locked(u) /\ UNCHANGED <<cbVars, rtVars, lgVars, hsVars>>)
SpecLocks == InitLocks /\ [][NextLocks]_vars /\ LocksFairness


(***************************************************************************)
(* Claims about the circuit breaker (checked under SpecBreaker)            *)
(***************************************************************************)

\* the step in which some task records a failure (_on_failure ran)
FailureRecorded == \E t \in Tasks : cb_pc[t] = "on_failure" /\ cb_pc'[t] = "idle"
\* the step in which some task records a success (_on_success ran)
SuccessRecorded == \E t \in Tasks : cb_pc[t] = "on_success" /\ cb_pc'[t] = "idle"
\* the step in which task t's call is admitted or rejected
Decided(t) == cb_pc[t] = "admit" /\ cb_pc'[t] # "admit"

\* C1: in a run of failures that began while CLOSED (no success recorded in
\* between), every failure recorded from the failure_threshold-th on leaves the
\* breaker OPEN with exactly one CLOSED->OPEN transition counted for the run;
\* no run ever counts two, a failure recorded while OPEN counts none, and the
\* state goes CLOSED->OPEN only in a step that records a failure.
C1_Step ==
    /\ run_opens' <= 1
    /\ (FailureRecorded /\ run_closed /\ run + 1 >= failure_threshold)
          => (state' = OPEN /\ run_opens' = 1)
    /\ (FailureRecorded /\ run_closed /\ run + 1 < failure_threshold)
          => (state' = CLOSED /\ run_opens' = 0)
    /\ (FailureRecorded /\ state = OPEN)
          => (state' = OPEN /\ run_opens' = run_opens)
    /\ (state = CLOSED /\ state' = OPEN) => (FailureRecorded /\ run_opens = 0)
C1_OpensExactlyOnce == [][C1_Step]_vars

\* C1 witness: a failure of a call that was in flight when the breaker opened
\* has been recorded after the opening
C1_Witness ==
    /\ run_closed /\ run > failure_threshold
    /\ state = OPEN /\ run_opens = 1 /\ cb_event = "reraised"

\* C2: a call decided while OPEN before timeout has elapsed since the breaker
\* entered OPEN raises CircuitBreakerOpenError, does not invoke the operation,
\* and leaves state, failure_count, success_count and last_failure_time as
\* they were.
C2_Step ==
    \A t \in Tasks :
        (Decided(t) /\ state = OPEN /\ now - last_state_change < timeout)
            => /\ cb_pc'[t] = "idle"
               /\ cb_event' = "CircuitBreakerOpenError"
               /\ state' = state
               /\ failure_count' = failure_count
               /\ success_count' = success_count
               /\ last_failure_time' = last_failure_time
C2_RejectsWhileOpen == [][C2_Step]_vars

\* C2 witness: a call has just been rejected inside the cooldown
C2_Witness ==
    /\ cb_event = "CircuitBreakerOpenError"
    /\ state = OPEN
    /\ now - last_state_change < timeout
    /\ failure_count > 0

\* C3 (as claimed): a call decided while OPEN once timeout has elapsed since the
\* breaker entered OPEN is admitted as a HALF_OPEN probe: the state becomes
\* HALF_OPEN, both counters are 0 and the operation is invoked by that call.
C3_Step ==
    \A t \in Tasks :
        (Decided(t) /\ state = OPEN /\ now - last_state_change >= timeout)
            => /\ state' = HALF_OPEN
               /\ failure_count' = 0
               /\ success_count' = 0
               /\ cb_pc'[t] = "running"
C3_ProbeAfterCooldown == [][C3_Step]_vars

\* C4: a failure recorded while HALF_OPEN leaves the breaker OPEN, whatever
\* success_count was, and the cooldown is measured from the time of that
\* failure (last_failure_time and the state-change time are both now).
C4_Step ==
    (FailureRecorded /\ state = HALF_OPEN)
        => /\ state' = OPEN
           /\ last_failure_time' = now
           /\ last_state_change' = now
           /\ ~CooldownElapsed(last_failure_time', now, timeout)
C4_HalfOpenFailureOpens == [][C4_Step]_vars

\* C4 witness: the breaker has just gone HALF_OPEN -> OPEN on a failure recorded
\* after a probe success had already been counted
C4_Witness ==
    /\ state = OPEN /\ cb_event = "reraised"
    /\ success_count > 0
    /\ last_failure_time = now /\ last_state_change = now

\* C5: while HALF_OPEN, success_count is the number k of successes recorded
\* since HALF_OPEN was entered and k < success_threshold; the breaker goes
\* HALF_OPEN->CLOSED exactly in the step that records the
\* success_threshold-th such success, CLOSED is entered from no other state,
\* and on closing failure_count is 0.
C5_Step ==
    /\ (state' = HALF_OPEN)
          => (success_count' = ho_succ' /\ ho_succ' < success_threshold)
    /\ (state = HALF_OPEN /\ SuccessRecorded /\ ho_succ + 1 < success_threshold)
          => (state' = HALF_OPEN /\ success_count' = ho_succ + 1)
    /\ (state = HALF_OPEN /\ state' = CLOSED)
          <=> (state = HALF_OPEN /\ SuccessRecorded
                  /\ ho_succ + 1 = success_threshold)
    /\ (state # CLOSED /\ state' = CLOSED)
          => (state = HALF_OPEN /\ failure_count' = 0)
C5_ClosesAtSuccessThreshold == [][C5_Step]_vars

\* C5 witness: failure_threshold = 3, success_threshold = 2: three failures, a
\* rejected call, the cooldown, and the second of two successes has closed the
\* breaker
C5_Witness ==
    /\ failure_threshold = 3 /\ success_threshold = 2
    /\ calls = 6 /\ ho_succ = 2
    /\ state = CLOSED /\ cb_event = "returned"
    /\ failure_count = 0 /\ last_state_change > 1

\* the step in which task t's call invokes the wrapped operation (line 142/144)
Invoked(t) == cb_pc[t] # "running" /\ cb_pc'[t] = "running"

\* C17: a call invokes the wrapped operation only in the step that admits it,
\* and a rejected call not at all; once invoked, the call never goes back to
\* the admission check or to the operation, so it invokes at most once. When
\* the operation raised, the call records exactly one failure (failure_count
\* grows by 1, and grows in no other step) and re-raises that same exception.
C17_Step ==
    /\ \A t \in Tasks :
          /\ Invoked(t) => (Decided(t) /\ state' # OPEN)
          /\ Decided(t) =>
                IF state' = OPEN
                THEN cb_pc'[t] = "idle" /\ cb_event' = "CircuitBreakerOpenError"
                ELSE Invoked(t)
          /\ (cb_pc[t] = "running")
                => cb_pc'[t] \in {"running", "on_success", "on_failure", "idle"}
          /\ (cb_pc[t] \in {"on_success", "on_failure"})
                => cb_pc'[t] \in {cb_pc[t], "idle"}
          /\ (cb_pc[t] = "on_failure" /\ cb_pc'[t] = "idle")
                => /\ failure_count' = failure_count + 1
                   /\ cb_event' = "reraised"
                   /\ cb_exc \in OpExcTypes
                   /\ cb_raised' = cb_exc
    /\ (failure_count' > failure_count)
          => (FailureRecorded /\ failure_count' = failure_count + 1)
    /\ (cb_raised' # "none") => FailureRecorded
C17_NeverRetries == [][C17_Step]_vars

\* C17 witness: two calls were made, each invoked the operation once and each
\* failed; two failures are counted and the second exception was re-raised
C17_Witness ==
    /\ calls = 2 /\ failure_count = 2 /\ run = 2
    /\ state = CLOSED
    /\ cb_event = "reraised" /\ cb_raised = "ValueError"
    /\ \A t \in Tasks : cb_pc[t] = "idle"

\* C18: the breaker starts CLOSED and its state changes only along
\* CLOSED->OPEN, OPEN->HALF_OPEN, HALF_OPEN->CLOSED and HALF_OPEN->OPEN.
C18_Step ==
    (state' # state)
        => <<state, state'>> \in {<<CLOSED, OPEN>>, <<OPEN, HALF_OPEN>>,
                                  <<HALF_OPEN, CLOSED>>, <<HALF_OPEN, OPEN>>}
C18_Transitions == (state = CLOSED) /\ [][C18_Step]_vars

\* C18 witness: the breaker opened, went HALF_OPEN after the cooldown, closed
\* on a probe success and has opened again on a failure recorded while CLOSED
C18_Witness ==
    /\ state = OPEN /\ cb_event = "reraised"
    /\ run_closed /\ run_opens = 1
    /\ ho_succ >= 1 /\ success_count = 0

\* C19 (as claimed): success_count is 0 whenever the breaker is not HALF_OPEN.
C19_SuccessCountOnlyHalfOpen == (state # HALF_OPEN) => (success_count = 0)

\* C20: a success recorded while CLOSED leaves the breaker CLOSED with
\* failure_count 0; while CLOSED, failure_count is the number of failures
\* recorded since the last recorded success and is below failure_threshold; and
\* the breaker leaves CLOSED only in a step that records the
\* failure_threshold-th failure of such a run, so runs of failures shorter than
\* failure_threshold, separated by successes, leave it CLOSED.
C20_Step ==
    /\ (SuccessRecorded /\ state = CLOSED)
          => (state' = CLOSED /\ failure_count' = 0)
    /\ (state' = CLOSED)
          => (failure_count' = run' /\ run' < failure_threshold)
    /\ (state = CLOSED /\ state' # CLOSED)
          => (FailureRecorded /\ run + 1 >= failure_threshold /\ state' = OPEN)
    /\ (FailureRecorded /\ state = CLOSED /\ run + 1 < failure_threshold)
          => state' = CLOSED
C20_SuccessResetsFailures == [][C20_Step]_vars

\* C20 witness: failure_threshold = 2; a failure and then a success were
\* recorded while CLOSED (no time has passed, so the breaker never opened), and
\* the count is back to 0
C20_Witness ==
    /\ failure_threshold = 2 /\ now = 1
    /\ state = CLOSED /\ last_failure_time = 1
    /\ failure_count = 0 /\ run = 0
    /\ cb_event = "returned" /\ calls >= 2

\* C28: while the breaker is CLOSED, failure_count < failure_threshold; and
\* failure_count and success_count are never negative.
C28_ClosedBelowThreshold ==
    /\ (state = CLOSED) => (failure_count < failure_threshold)
    /\ failure_count >= 0
    /\ success_count >= 0

\* C28 witness: CLOSED at the edge: one failure fewer than the threshold has
\* been recorded, by calls that ran concurrently
C28_Witness ==
    /\ state = CLOSED /\ failure_threshold = 3
    /\ failure_count = failure_threshold - 1
    /\ cb_event = "reraised"
    /\ \E t \in Tasks : cb_pc[t] = "running"

\* C30: an outcome recorded while OPEN leaves the breaker OPEN, be it a
\* success or a failure; the state leaves OPEN only in the step in which a
\* new call is decided (the cooldown check), and then it becomes HALF_OPEN.
C30_Step ==
    /\ (state = OPEN /\ (SuccessRecorded \/ FailureRecorded)) => state' = OPEN
    /\ (state = OPEN /\ state' # OPEN)
          => /\ state' = HALF_OPEN
             /\ \E t \in Tasks : Decided(t) /\ cb_pc'[t] = "running"
             /\ CooldownElapsed(last_failure_time, now, timeout)
C30_LateOutcomesKeepOpen == [][C30_Step]_vars

\* C30 witness: a call admitted before the breaker opened has just returned
\* successfully while the breaker is OPEN, and the breaker is still OPEN
C30_Witness ==
    /\ state = OPEN /\ cb_event = "returned"
    /\ run = 0 /\ failure_count >= failure_threshold

\* C21: the lock is held only by a task that is deciding admission or
\* recording an outcome, never by a task whose operation runs; a call is
\* admitted iff the checked state is not OPEN, whatever operations are in
\* flight, and the lock is free again as soon as the call is decided.
C21_Step ==
    /\ (cb_lock' # 0) => cb_pc'[cb_lock'] \in {"admit", "on_success", "on_failure"}
    /\ \A t \in Tasks : (cb_pc'[t] = "running") => (cb_lock' # t)
    /\ \A t \in Tasks :
          Decided(t)
              => /\ cb_lock' = 0
                 /\ (cb_pc'[t] = "running")
                       <=> (CheckedState(state, last_failure_time, now, timeout) # OPEN)
                 /\ (cb_pc'[t] = "running") => (cb_adm'[t] = state' /\ state' # OPEN)
C27_Step ==
    \A t \in Tasks :
        (/\ cb_pc[t] \in {"on_success", "on_failure"} /\ cb_pc'[t] = "idle"
         /\ cb_adm[t] = CLOSED /\ state = HALF_OPEN)
            => (state' = state /\ success_count' = success_count)
C27_OnlyProbesCount == [][C27_Step]_vars

(***************************************************************************)
(* Claims about the retry wrapper (checked under SpecRetry)                *)
(***************************************************************************)

\* an exception of class ty is retryable under the policy: its class, or a
\* base class of it, is listed in retryable_exceptions
Retryable(ty) ==
    \/ ty \in retryable_exceptions
    \/ "Exception" \in retryable_exceptions
    \/ (ty = "ConnectionError" /\ "OSError" \in retryable_exceptions)

\* C6: with max_attempts = N >= 1, func is never invoked more than N times and
\* never more than N-1 sleeps happen; a call that ends by raising a retryable
\* exception (every attempt failed with a retryable exception) has invoked func
\* exactly N times, slept exactly N-1 times, and raises the very exception the
\* N-th invocation raised, never a RuntimeError.
C6_ExhaustionReraises ==
    (max_attempts >= 1) =>
        /\ r_invocations <= max_attempts
        /\ Len(r_sleeps) <= max_attempts - 1
        /\ (r_pc = "raised") => (r_raised = r_exc /\ r_raised.type \in ExcTypes)
        /\ (r_pc = "raised" /\ Retryable(r_raised.type))
              => /\ r_invocations = max_attempts
                 /\ Len(r_sleeps) = max_attempts - 1
                 /\ r_raised.id = max_attempts

\* C6 witness: three or more attempts all failed with a retryable exception
C6_Witness ==
    /\ r_pc = "raised" /\ max_attempts >= 3
    /\ retryable_exceptions = {"OSError"}
    /\ r_raised = [id |-> max_attempts, type |-> "ConnectionError"]
    /\ r_invocations = max_attempts
    /\ Len(r_sleeps) = max_attempts - 1

\* C7: once an invocation has raised an exception that is not retryable, the
\* call has ended by raising that same exception: func is not invoked again
\* and no sleep follows it (for the first attempt: 1 invocation, no sleep).
C7_NonRetryablePropagates ==
    (r_exc # NoExc /\ ~Retryable(r_exc.type))
        => /\ r_pc = "raised"
           /\ r_raised = r_exc
           /\ r_invocations = r_exc.id
           /\ Len(r_sleeps) = r_exc.id - 1
           /\ (r_exc.id = 1 => (r_invocations = 1 /\ r_sleeps = <<>>))

\* C7 witness: the first attempt raised a non-retryable exception although
\* more attempts were allowed
C7_Witness ==
    /\ r_pc = "raised" /\ max_attempts > 1
    /\ retryable_exceptions = {"OSError"}
    /\ r_raised = [id |-> 1, type |-> "ValueError"]
    /\ r_invocations = 1 /\ r_sleeps = <<>>

RECURSIVE C8_Grown(_)
\* initial_delay * exponential_base^i
C8_Grown(i) == IF i = 0 THEN initial_delay ELSE exponential_base * C8_Grown(i - 1)

\* the delays, in seconds, of multiplier 2, initial_delay 1, max_delay 10
C8_Table == <<1, 2, 4, 8, 10, 10, 10, 10, 10, 10>>

\* C8: without jitter the k-th sleep (after the failure of 0-based attempt k-1)
\* lasts min(initial_delay * exponential_base^(k-1), max_delay) seconds, never
\* more than max_delay; for (1, 10, 2) the delays are 1, 2, 4, 8, 10, 10, ...
C8_DelaySequence ==
    (~jitter) =>
        \A k \in DOMAIN r_sleeps :
            /\ r_sleeps[k] = 100 * (IF C8_Grown(k - 1) <= max_delay
                                    THEN C8_Grown(k - 1) ELSE max_delay)
            /\ r_sleeps[k] <= 100 * max_delay
            /\ (initial_delay = 1 /\ exponential_base = 2 /\ max_delay = 10)
                  => r_sleeps[k] = 100 * C8_Table[k]

\* C8 witness: six sleeps of 1, 2, 4, 8, 10, 10 seconds
C8_Witness ==
    /\ ~jitter
    /\ r_sleeps = <<100, 200, 400, 800, 1000, 1000>>

\* C15 (as claimed): once an invocation has raised CircuitBreakerOpenError (the
\* wrapped CircuitBreaker.call was rejected), the call of the retry wrapper has
\* ended by raising that error: no sleep follows it and func is not invoked
\* again.
C15_OpenErrorNotRetried ==
    (r_exc.type = "CircuitBreakerOpenError")
        => /\ r_pc = "raised"
           /\ r_raised = r_exc
           /\ r_invocations = r_exc.id
           /\ Len(r_sleeps) = r_exc.id - 1

\* C22: a call that has returned returns the result of its last invocation,
\* the k-th, with k <= max_attempts: func was invoked exactly k times, exactly
\* k-1 sleeps happened (one after each failed attempt), and from then on
\* nothing changes: no invocation and no sleep follows the success.
C22_Step ==
    /\ (r_pc' = "returned")
          => /\ r_result' = r_invocations'
             /\ r_invocations' = attempt' + 1
             /\ r_invocations' <= max_attempts
             /\ Len(r_sleeps') = r_invocations' - 1
             /\ r_exc' = NoExc /\ r_raised' = NoExc
    /\ (r_pc = "returned")
          => (r_pc' = "returned" /\ r_invocations' = r_invocations
                /\ r_sleeps' = r_sleeps /\ r_result' = r_result)
    /\ (r_pc = "running" /\ r_pc' = "returned")
          => (r_invocations' = r_invocations /\ r_sleeps' = r_sleeps)
C22_FirstSuccessReturned == [][C22_Step]_vars

\* C22 witness: two attempts failed with a retryable exception, the third
\* succeeded and its result was returned although more attempts were allowed
C22_Witness ==
    /\ r_pc = "returned" /\ r_result = 3
    /\ r_invocations = 3 /\ Len(r_sleeps) = 2
    /\ max_attempts > 3

\* min(initial_delay * exponential_base^i, max_delay), in seconds
C24_Base(i) ==
    IF C8_Grown(i) <= max_delay THEN C8_Grown(i) ELSE max_delay

\* C24 (as claimed): with jitter, the k-th sleep is the capped base delay times
\* a factor uniform(0.5, 1.5) = 0.5 + random.random() * (1.5 - 0.5), so it lies
\* within [0.5 x base, 1.5 x base].
C24_JitterRange ==
    jitter =>
        \A k \in DOMAIN r_sleeps :
            /\ r_sleeps[k] = C24_Base(k - 1) * (50 + r_draws[k])
            /\ r_sleeps[k] >= 50 * C24_Base(k - 1)
            /\ r_sleeps[k] <= 150 * C24_Base(k - 1)

\* C25: a cancellation of the task running retry_with_backoff, delivered
\* inside func or inside the sleep, ends the call at once with CancelledError:
\* the step invokes nothing and adds no sleep, and nothing happens afterwards;
\* a sleep begins only after an invocation raised an exception of its own.
C25_Step ==
    /\ (r_pc # "cancelled" /\ r_pc' = "cancelled")
          => /\ r_pc \in {"running", "sleeping"}
             /\ r_raised'.type = "CancelledError"
             /\ r_invocations' = r_invocations
             /\ r_sleeps' = r_sleeps
    /\ (r_pc = "running" /\ r_pc' = "sleeping")
          => (r_exc' # NoExc /\ r_exc'.type \in ExcTypes)
    /\ (r_pc = "sleeping") => r_pc' \in {"sleeping", "ready", "cancelled"}
    /\ (r_pc = "cancelled")
          => (r_pc' = "cancelled" /\ r_invocations' = r_invocations
                /\ r_sleeps' = r_sleeps)
C25_CancellationPropagates == [][C25_Step]_vars

\* C25 witness: the call was cancelled during its second sleep, with attempts
\* left
C25_Witness ==
    /\ r_pc = "cancelled" /\ r_raised.type = "CancelledError"
    /\ Len(r_sleeps) = 2 /\ r_invocations = 2 /\ max_attempts > 3
    /\ retryable_exceptions = {"Exception"}

(***************************************************************************)
(* Claims about the token cache (checked under SpecAuth)                   *)
(***************************************************************************)

\* the step in which task t calls _get_auth_token and checks without the lock
FastChecked(t) ==
    a_pc[t] = "idle" /\ a_calls' = a_calls + 1 /\ a_event'.task = t
\* the step in which task t, having waited, holds the lock and checks again
Rechecked(t) ==
    a_pc[t] = "wait_lock" /\ a_pc'[t] # "wait_lock" /\ a_event'.kind # "cancelled"
\* in this step task t returns the token that was cached, and no
\* authentication request is sent
ReturnsCached(t) ==
    /\ a_pc'[t] = "idle"
    /\ a_event'.task = t /\ a_event'.kind = "token"
    /\ a_token # NoToken /\ a_event'.token = a_token
    /\ a_requests' = a_requests
    /\ a_token' = a_token /\ a_expires' = a_expires

\* C9 (as claimed): a task that was waiting for the lock while an
\* authentication succeeded sends no request of its own and returns the token
\* of that authentication, so callers that overlap share one request.
C9_Step ==
    \A t \in Tasks :
        (Rechecked(t) /\ a_seen[t] # NoToken)
            => (ReturnsCached(t) /\ a_event'.token = a_seen[t])
C9_OneRequestForAll == [][C9_Step]_vars

\* C9 (amended): a task that was waiting for the lock while an authentication
\* succeeded, and that finds the token of that authentication still usable
\* (now < expires_at - 5 min) when it checks again under the lock, sends no
\* request of its own and returns that token.
C9_AmendedStep ==
    \A t \in Tasks :
        (/\ Rechecked(t)
         /\ a_seen[t] # NoToken
         /\ a_token = a_seen[t]
         /\ a_expires # NoExpiry
         /\ a_now < a_expires - RefreshMargin)
            => (ReturnsCached(t) /\ a_event'.token = a_seen[t])
C9_OneRequestWhileUsable == [][C9_AmendedStep]_vars

\* C9 witness: every task has called once, starting with an empty cache; one
\* request was sent, and the last caller, which had waited for the lock, has
\* returned the token of that request
C9_Witness ==
    /\ a_calls = NumTasks /\ a_requests = 1
    /\ \A t \in Tasks : a_pc[t] = "idle"
    /\ a_event.kind = "token" /\ a_event.via = "recheck"
    /\ a_event.arrival = "none"
    /\ a_event.seen # NoToken /\ a_event.token = a_event.seen

\* C10, first half (claimed and kept): at either check, the cached token is
\* returned without an authentication request iff a token is cached and
\* now < expires_at - 5 min.
C10_CachedIffUsable ==
    \A t \in Tasks :
        (FastChecked(t) \/ Rechecked(t))
            => (ReturnsCached(t)
                  <=> (/\ a_token # NoToken
                       /\ a_expires # NoExpiry
                       /\ a_now < a_expires - RefreshMargin))

\* C10 (as claimed): the first half, and a caller that arrived inside the
\* refresh margin and waited while the refresh was made sends no request of its
\* own.
C10_Step ==
    /\ C10_CachedIffUsable
    /\ \A t \in Tasks :
          (Rechecked(t) /\ a_arrival[t] = "margin" /\ a_seen[t] # NoToken)
              => a_requests' = a_requests
C10_AmendedStep ==
    /\ C10_CachedIffUsable
    /\ \A t \in Tasks :
          (/\ Rechecked(t)
           /\ a_arrival[t] = "margin"
           /\ a_seen[t] # NoToken
           /\ a_token = a_seen[t]
           /\ a_expires # NoExpiry
           /\ a_now < a_expires - RefreshMargin)
              => (a_requests' = a_requests /\ ReturnsCached(t))
RefreshFailed == a_event'.via = "refresh" /\ a_event'.kind = "error"
\* the step in which a refresh ends by returning the new token (line 213)
RefreshSucceeded == a_event'.via = "refresh" /\ a_event'.kind = "token"

\* C11 (as claimed): a token that has just been returned, from the cache or
\* from a refresh that just completed, is the cached token and is unexpired:
\* now < the expires_at recorded for it.
C11_NeverServesExpired ==
    (a_event.kind = "token")
        => /\ a_event.token = a_token
           /\ a_token # NoToken
           /\ a_expires # NoExpiry
           /\ a_now < a_expires

\* C12: a successful authentication whose response omits the expiry caches
\* expires_at = time of issue + 24 h exactly; as long as that credential is
\* cached, a caller is served from the cache iff less than 24 h minus the
\* refresh margin has passed since the issue.
C12_Step ==
    /\ (RefreshSucceeded /\ a_event'.expires = "omitted")
          => /\ a_expires' = a_now + FallbackLifetime
             /\ a_fallback_at' = a_now
             /\ a_token' # NoToken
    /\ (a_fallback_at' # 0)
          => /\ a_expires' = a_fallback_at' + FallbackLifetime
             /\ a_token' # NoToken
    /\ \A t \in Tasks :
          ((FastChecked(t) \/ Rechecked(t)) /\ a_fallback_at # 0)
              => (ReturnsCached(t)
                    <=> a_now - a_fallback_at < FallbackLifetime - RefreshMargin)
C12_FallbackLifetime == [][C12_Step]_vars

\* C12 witness: a token issued without expiry is served from the cache one
\* time unit before 24 h minus the margin have passed
C12_Witness ==
    /\ a_fallback_at # 0
    /\ a_now - a_fallback_at = FallbackLifetime - RefreshMargin - 1
    /\ a_event.kind = "token" /\ a_event.via = "fast"
    /\ a_event.token = a_token

\* C13 (as claimed): a refresh that ends in an exception leaves token and
\* expires_at as they were, and the cached credential changes only in a step
\* in which a refresh succeeds.
C13_Step ==
    /\ RefreshFailed => (a_token' = a_token /\ a_expires' = a_expires)
    /\ (a_token' # a_token \/ a_expires' # a_expires) => RefreshSucceeded
C13_FailureKeepsCache == [][C13_Step]_vars

\* C14: at most one task is waiting for the response of an authentication
\* request, and that task holds the lock.
C14_OneRequestInFlight ==
    /\ Cardinality({t \in Tasks : a_pc[t] = "in_flight"}) <= 1
    /\ \A t \in Tasks : a_pc[t] = "in_flight" => a_lock = t

\* C14 witness: a request is in flight while another caller waits for the
\* lock, after an earlier request was cancelled or failed (nothing is cached,
\* two requests were sent)
C14_Witness ==
    /\ \E t, u \in Tasks : a_pc[t] = "in_flight" /\ a_pc[u] = "wait_lock"
    /\ a_requests = 2 /\ a_token = NoToken /\ a_calls = NumTasks + 1

\* C23: a refresh that fails raises to the task that made the request and to
\* no other: the tasks waiting for the lock go on waiting, and the cache is
\* not usable afterwards. A waiting task that acquires the lock and finds the
\* cache unusable sends a request of its own (the settings being complete), so
\* each of N callers facing a failing endpoint makes its own request, one after
\* the other, and gets the exception of its own attempt.
C23_Step ==
    /\ RefreshFailed
          => /\ \E t \in Tasks :
                   /\ a_pc[t] = "in_flight" /\ a_pc'[t] = "idle"
                   /\ a_event'.task = t
                   /\ \A u \in Tasks \ {t} : a_pc'[u] = a_pc[u]
             /\ ~Usable(a_token', a_expires', a_now)
             /\ a_requests' = a_requests
    /\ \A t \in Tasks :
          (Rechecked(t) /\ ~Usable(a_token, a_expires, a_now) /\ a_config_ok)
              => /\ a_requests' = a_requests + 1
                 /\ a_pc'[t] = "in_flight"
                 /\ a_lock' = t
    /\ \A t \in Tasks :
          (a_pc[t] = "in_flight" /\ a_pc'[t] = "idle")
              => (a_event'.task = t /\ a_event'.kind \in {"token", "error", "cancelled"})
C16_LocksReleased ==
    /\ [](cb_lock # 0 => cb_pc[cb_lock] \in {"admit", "on_success", "on_failure"})
    /\ [](a_lock # 0 => a_pc[a_lock] = "in_flight")
    /\ (cb_lock # 0) ~> (cb_lock = 0)
    /\ \A u \in Tasks : (a_pc[u] = "wait_lock") ~> (a_pc[u] # "wait_lock")

\* C16 witness: the task that held the service's lock was cancelled while its
\* request was in flight; the lock is free and another task is waiting for it
C16_Witness ==
    /\ a_event.kind = "cancelled" /\ a_event.via = "in_flight"
    /\ a_lock = 0
    /\ \E u \in Tasks : a_pc[u] = "wait_lock"

(***************************************************************************)
(* Claims about the log sender (checked under SpecLogger)                  *)
(***************************************************************************)

\* C26 (as claimed): at most MAX_RETRIES send attempts are made; when there was
\* something to send, True is returned only if every log of the batch was
\* answered with 200 in the attempt that returned, and a batch in which some
\* log was answered with another status is reported as failed: False, with the
\* error counter incremented.
C26_TrueOnlyIfAllSent ==
    /\ l_attempts <= MAX_RETRIES
    /\ (l_pc = "returned" /\ l_len > 0 /\ l_appkey)
          => /\ (l_result = "True")
                   => /\ Len(l_statuses) = l_len
                      /\ \A k \in DOMAIN l_statuses : l_statuses[k] = "200"
             /\ (\E k \in DOMAIN l_statuses : l_statuses[k] # "200")
                   => (l_result = "False" /\ l_errors = 1)

(***************************************************************************)
(* Claims about recovery (checked under SpecRecovery)                      *)
(***************************************************************************)

\* C29: once the dependency has recovered, an OPEN breaker eventually becomes
\* HALF_OPEN, and a breaker that is not CLOSED eventually becomes CLOSED: it
\* neither stays OPEN forever nor is stuck in HALF_OPEN.
C29_Recovers ==
    /\ (healthy /\ state = OPEN) ~> (state = HALF_OPEN)
    /\ (healthy /\ state # CLOSED) ~> (state = CLOSED)

\* C29 witness: the breaker has closed on the second success of a HALF_OPEN
\* period after the dependency recovered, at a time beyond MaxTime
C29_Witness ==
    /\ healthy /\ state = CLOSED /\ cb_event = "returned"
    /\ success_threshold = 2 /\ ho_succ = 2
    /\ now = MaxTime /\ calls = MaxCalls

=============================================================================
